---- MODULE Spec2Model ----
(***************************************************************************)
(* Model of the agent test harness: scripts/run_test_suite.py (recursion   *)
(* guard, agent invoker, test runner, suite runner, inline aggregation)    *)
(* and scripts/aggregate_results.py (standalone aggregation pass).         *)
(*                                                                         *)
(* Python values are tagged records: None_, Str(tokens), Num(n), Obj(j).   *)
(* A string is a sequence of string tokens, so that concatenation is \o    *)
(* and the empty string is <<>>.  A Python dict is a TLA+ function from    *)
(* key names to values; an absent key is a key outside its DOMAIN.         *)
(* Money is counted in units of 0.00001 USD, durations in 0.01 s.          *)
(***************************************************************************)
EXTENDS Integers, Sequences, FiniteSets, TLC

VARIABLES
    pc,         \* position of the run command (main of run_test_suite.py)
    env,        \* AGENT_TEST_DEPTH in the process environment
    exitStatus, \* exit status of the run command, <<>> while it runs
    tests,      \* suite["tests"]: the ordered list of test identifiers
    timeout,    \* per-test timeout chosen by prompt_timeout
    idx,        \* loop variable i of run_test_suite (1-based)
    results,    \* the in-memory list of Test Results of run_test_suite
    passed,     \* running pass counter of run_test_suite
    total_cost, \* running cost counter of run_test_suite
    result,     \* the Test Result under construction in run_single_test
    turn1,      \* the attempt Turn Result of the current test
    turn,       \* the Turn Result returned by the last run_claude_command
    raw,        \* what the external process did in the last invocation
    proc,       \* the external agent process in flight, NoProc when none
    calls,      \* log of the agent invocations made so far
    disk,       \* the results directory: file name -> content
    writes,     \* log of the writes to the results directory
    aggregation,\* return value of the inline aggregate_results
    aggRuns,    \* completed runs of the standalone aggregation pass
    statsIn,    \* input list of calculate_statistics (statistics check)
    statsOut,   \* record returned by calculate_statistics
    aggPass,    \* the last run of the standalone aggregation pass
    chain       \* stack of nested harness / agent processes (depth check)

vars == <<pc, env, exitStatus, tests, timeout, idx, results, passed,
          total_cost, result, turn1, turn, raw, proc, calls, disk, writes,
          aggregation, aggRuns, statsIn, statsOut, aggPass, chain>>

-----------------------------------------------------------------------------
(* Bounds of the model *)

MaxTests == 2       \* longest suite
MaxAggRuns == 2     \* runs of the standalone aggregation pass
MaxResults == 3     \* longest input of calculate_statistics
MaxEnvDepth == 4    \* largest inherited AGENT_TEST_DEPTH
MaxSpawns == 2      \* agent processes one harness process starts

-----------------------------------------------------------------------------
(* Python values *)

None_ == [t |-> "none"]
Str(s) == [t |-> "str", s |-> s]
Num(n) == [t |-> "num", n |-> n]
\* a JSON object value, named by its serialisation
Obj(j) == [t |-> "obj", j |-> j]
\* a JSON array value
Arr(j) == [t |-> "arr", j |-> j]
\* a list, by its items
List(items) == [t |-> "list", items |-> items]
\* a dict held as a value
Dict(d) == [t |-> "dict", d |-> d]

EmptyStr == Str(<<>>)

\* Python truthiness: None, "", 0, {} and [] are false
Truthy(v) ==
    CASE v.t = "none" -> FALSE
      [] v.t = "str" -> v.s # <<>>
      [] v.t = "num" -> v.n # 0
      [] v.t = "obj" -> v.j # "{}"
      [] v.t = "arr" -> v.j # "[]"
      [] v.t = "list" -> v.items # <<>>
      [] v.t = "dict" -> DOMAIN v.d # {}

\* dict.get(key, default)
Get(d, k, default) == IF k \in DOMAIN d THEN d[k] ELSE default

\* d[key] = value
Put(d, k, v) == [x \in DOMAIN d \cup {k} |-> IF x = k THEN v ELSE d[x]]

\* the empty dict
EmptyDict == [x \in {} |-> None_]

\* dict merge of two dicts with disjoint keys
Merge(a, b) == [x \in DOMAIN a \cup DOMAIN b |-> IF x \in DOMAIN a THEN a[x] ELSE b[x]]

\* json.dumps of a dict
JsonDumps(v) == Str(<<v.j>>)

\* whether a string contains a token
Contains(v, tok) == v.t = "str" /\ \E k \in 1..Len(v.s) : v.s[k] = tok

-----------------------------------------------------------------------------
(* Constants of run_test_suite.py *)

MAX_RECURSION_DEPTH == 2
REFLECTION_MAX_TURNS == 2
DEFAULT_MAX_TURNS == 10
REFLECTION_PROMPT == "REFLECTION_PROMPT"

NoSessionNote == " No session_id returned from Turn 1."
MaxTurnsPlaceholder == "[Task incomplete - max turns reached]"
NotFoundMsg == "claude CLI not found. Is it installed and in PATH?"
ParseFailureNote == "Failed to parse JSON output: "

NoTimeout == 0
\* prompt_timeout: 5 minutes, 10 minutes or no timeout
TimeoutChoices == {300, 600, NoTimeout}

-----------------------------------------------------------------------------
(* What the external agent process can do in one invocation *)

\* the session identifiers the agent hands out, one per conversation
SessionIds == <<"sid-1", "sid-2", "sid-3", "sid-4">>

SubtypeChoices ==
    {EmptyDict, [subtype |-> Str(<<"success">>)],
     [subtype |-> Str(<<"error_max_turns">>)]}

ReflectionJson == "{\"improvement_suggestions\": [\"a\"]}"

\* the fields of a response under the key names the CLI uses now
TextChoices ==
    {EmptyDict, [result |-> EmptyStr], [result |-> Str(<<ReflectionJson>>)],
     [result |-> Obj("{\"k\": 1}")]}
SessionChoices(sid) == {EmptyDict, [session_id |-> Str(<<sid>>)]}
CostChoices == {EmptyDict, [total_cost_usd |-> Num(12346)]}
TurnsChoices == {EmptyDict, [num_turns |-> Num(3)]}

\* the same fields under the other key names run_claude_command accepts
AltTextChoices == {EmptyDict, [message |-> Str(<<"answer">>)]}
AltSessionChoices(sid) == {EmptyDict, [sessionId |-> Str(<<sid>>)]}
AltCostChoices == {[cost_usd |-> Num(12346)], [costUsd |-> Num(12346)]}
AltTurnsChoices == {EmptyDict, [numTurns |-> Num(3)], [numTurns |-> Num(0)]}

\* a response that carries every key under both names, with different values
BothNames(sid) ==
    [subtype |-> Str(<<"success">>),
     result |-> Str(<<"answer">>), message |-> Str(<<"other answer">>),
     session_id |-> Str(<<sid>>), sessionId |-> Str(<<"other session">>),
     total_cost_usd |-> Num(12346), cost_usd |-> Num(20), costUsd |-> Num(30),
     num_turns |-> Num(3), numTurns |-> Num(4)]

\* exit status and standard error of a process that exited
ExitChoices ==
    {[returncode |-> 0, stderr |-> <<>>], [returncode |-> 1, stderr |-> <<>>],
     [returncode |-> 1, stderr |-> <<"agent error">>]}

\* the JSON objects the agent prints
ResponseObjects(sid) ==
    {Merge(a, Merge(b, Merge(c, Merge(d, e)))) :
        a \in SubtypeChoices, b \in TextChoices, c \in SessionChoices(sid),
        d \in CostChoices, e \in TurnsChoices}
    \cup {Merge(a, Merge(b, Merge(c, Merge(d, e)))) :
            a \in SubtypeChoices, b \in AltTextChoices, c \in AltSessionChoices(sid),
            d \in AltCostChoices, e \in AltTurnsChoices}
    \cup {BothNames(sid)}

\* standard output: its text and what json.loads makes of it
JsonStdout(v) == [text |-> <<"<json>">>, parses |-> TRUE, value |-> v]
GarbageStdout(s) == [text |-> s, parses |-> FALSE, value |-> None_]

Exited(x, out) ==
    [kind |-> "exit", returncode |-> x.returncode, stdout |-> out,
     stderr |-> x.stderr, msg |-> <<>>]
NotFound == [kind |-> "not_found", returncode |-> 0, stdout |-> GarbageStdout(<<>>),
             stderr |-> <<>>, msg |-> <<>>]
TimedOut == [kind |-> "timeout", returncode |-> 0, stdout |-> GarbageStdout(<<>>),
             stderr |-> <<>>, msg |-> <<>>]
Raised(m) == [kind |-> "exception", returncode |-> 0, stdout |-> GarbageStdout(<<>>),
              stderr |-> <<>>, msg |-> m]

\* every outcome of one invocation; subprocess.run raises TimeoutExpired only
\* when a timeout was given
Outcomes(sid, tmo) ==
    {Exited(x, JsonStdout([t |-> "dict", d |-> o])) :
        x \in ExitChoices, o \in ResponseObjects(sid)}
    \cup {Exited(x, JsonStdout(Arr("[1]"))) : x \in ExitChoices}
    \cup {Exited(x, GarbageStdout(s)) :
            x \in ExitChoices, s \in {<<>>, <<"not json">>}}
    \cup {NotFound, Raised(<<"[Errno 13] Permission denied">>)}
    \cup (IF tmo # NoTimeout THEN {TimedOut} ELSE {})

\* the response carries the turn-limit-exceeded marker
HasMaxTurnsMarker(o) ==
    /\ o.kind = "exit"
    /\ o.stdout.parses
    /\ o.stdout.value.t = "dict"
    /\ Get(o.stdout.value.d, "subtype", Str(<<"success">>)) = Str(<<"error_max_turns">>)

\* an invocation fault: process missing, timed out, or another exception
\* raised while invoking or while normalising the response
IsInvocationFault(o) ==
    \/ o.kind \in {"not_found", "timeout", "exception"}
    \/ o.kind = "exit" /\ o.stdout.parses /\ o.stdout.value.t # "dict"

-----------------------------------------------------------------------------
(* run_claude_command *)

TimeoutMsg(tmo) == <<"Test timed out after ", ToString(tmo), " seconds">>
MaxTurnsMsg(n) ==
    <<"Task did not complete within ", ToString(n), " turns (max_turns limit reached)">>
AttributeErrorMsg == <<"'list' object has no attribute 'get'">>

\* a faulty variant of FailedTurn: the exception is swallowed without a message
FailedTurn_NoDescription(msg) ==
    [success |-> FALSE, result |-> EmptyStr, error |-> None_,
     session_id |-> None_, cost_usd |-> 0, num_turns |-> 0]

\* the dict of the three except clauses
FailedTurn(msg) ==
    [success |-> FALSE, result |-> EmptyStr, error |-> Str(msg),
     session_id |-> None_, cost_usd |-> 0, num_turns |-> 0]

\* the dict returned when json.loads raises JSONDecodeError
UnparsedTurn(stdout, stderr) ==
    [success |-> FALSE, result |-> Str(stdout.text),
     error |-> Str(<<ParseFailureNote>> \o stderr),
     session_id |-> None_, cost_usd |-> 0, num_turns |-> 0]

\* the error message of a parsed response
ErrorMsg(subtype, returncode, stderr, num_turns) ==
    IF subtype = Str(<<"error_max_turns">>) THEN Str(MaxTurnsMsg(num_turns.n))
    ELSE IF returncode # 0 THEN Str(stderr)
    ELSE None_

\* a faulty variant of ResponseText: no placeholder at the turn limit
ResponseText_NoPlaceholder(subtype, text) ==
    IF text.t = "obj" THEN JsonDumps(text) ELSE text

\* the response text of a parsed response
ResponseText(subtype, text) ==
    LET response_text == IF text.t = "obj" THEN JsonDumps(text) ELSE text
    IN  IF subtype = Str(<<"error_max_turns">>) /\ ~Truthy(response_text)
        THEN Str(<<MaxTurnsPlaceholder>>)
        ELSE response_text

TurnSuccess(returncode, subtype) ==
    returncode = 0 /\ subtype = Str(<<"success">>)

\* field extraction and the final dict
NormalizedTurn(returncode, stderr, output) ==
    LET subtype == Get(output, "subtype", Str(<<"success">>))
        text == Get(output, "result", Get(output, "message", EmptyStr))
        session == Get(output, "session_id", Get(output, "sessionId", None_))
        cost == Get(output, "total_cost_usd",
                    Get(output, "cost_usd", Get(output, "costUsd", Num(0))))
        num_turns == Get(output, "num_turns", Get(output, "numTurns", Num(1)))
    IN  [success |-> TurnSuccess(returncode, subtype),
         result |-> ResponseText(subtype, text),
         session_id |-> session,
         cost_usd |-> IF Truthy(cost) THEN cost.n ELSE 0,
         num_turns |-> IF Truthy(num_turns) THEN num_turns.n ELSE 1,
         error |-> ErrorMsg(subtype, returncode, stderr, num_turns)]

RunClaudeCommand(tmo, o) ==
    CASE o.kind = "timeout" -> FailedTurn(TimeoutMsg(tmo))
      [] o.kind = "not_found" -> FailedTurn(<<NotFoundMsg>>)
      [] o.kind = "exception" -> FailedTurn(o.msg)
      [] o.kind = "exit" ->
            IF ~o.stdout.parses THEN UnparsedTurn(o.stdout, o.stderr)
            ELSE IF o.stdout.value.t # "dict" THEN FailedTurn(AttributeErrorMsg)
            ELSE NormalizedTurn(o.returncode, o.stderr, o.stdout.value.d)

\* the command line built by run_claude_command
Command(prompt, max_turns, session_id, tmo) ==
    [prompt |-> prompt, resume |-> IF Truthy(session_id) THEN session_id ELSE None_,
     max_turns |-> max_turns, timeout |-> tmo]

-----------------------------------------------------------------------------
(* Suites and validate_suite *)

\* test identifiers as the YAML loader delivers them: the integer 1, the
\* strings "1" and "./1", and the two names the aggregation reserves
TestIds ==
    {Num(1), Str(<<"1">>), Str(<<"./", "1">>), Str(<<"_", "aggregation">>),
     Str(<<"aggregate-summary">>)}

\* str(test_id) as an f-string formats it
Format(v) == IF v.t = "num" THEN <<ToString(v.n)>> ELSE v.s

\* all test lists of at most n tests
RECURSIVE TestLists(_)
TestLists(n) ==
    IF n = 0 THEN {<<>>}
    ELSE LET shorter == TestLists(n - 1)
         IN  shorter \cup {Append(l, id) : l \in {x \in shorter : Len(x) = n - 1},
                                           id \in TestIds}

\* validate_suite on the test list: non-empty, every id present, no id twice
\* (set membership compares 1 and "1" as different)
ValidateSuite(ts) ==
    /\ ts # <<>>
    /\ \A k \in 1..Len(ts) : Truthy(ts[k])
    /\ \A j, k \in 1..Len(ts) : j # k => ts[j] # ts[k]

PromptOf(test_id) == Str(<<"prompt of ">> \o Format(test_id))

-----------------------------------------------------------------------------
(* Results directory *)

\* the / operator of pathlib drops a "." component of the right operand
JoinPath(name) == IF name[1] = "./" THEN Tail(name) ELSE name

\* results_dir / f"{test_id}.json"
ResultPath(test_id) == JoinPath(Format(test_id) \o <<".json">>)

LegacyPath == <<"_", "aggregation", ".json">>
SummaryPath == <<"aggregate-summary", ".json">>
ReportPath == <<"aggregate-report", ".md">>

WriteFile(d, path, content) == Put(d, path, content)

\* write_test_result
WriteTestResult(d, test_id, r) ==
    WriteFile(d, ResultPath(test_id), [kind |-> "test_result", value |-> r])

EmptyDir == [x \in {} |-> None_]

-----------------------------------------------------------------------------
(* run_single_test *)

\* the result structure at the start of a test; wall-clock time is not
\* modelled: every test takes one second (100 hundredths)
InitialResult(test_id) ==
    [test_id |-> test_id, success |-> FALSE, turn1 |-> None_,
     turn2_reflection |-> None_, total_cost_usd |-> 0,
     duration_seconds |-> 100]

\* result["turn1"], with the error only when the turn has one
AttemptRecord(t1) ==
    LET base == [result |-> t1.result, session_id |-> t1.session_id,
                 cost_usd |-> t1.cost_usd, num_turns |-> t1.num_turns]
    IN  IF Truthy(t1.error) THEN Put(base, "error", t1.error) ELSE base

\* a faulty variant of WithNoSessionNote: the note is not appended
WithNoSessionNote_Unchanged(rec) == rec

\* the no-session note appended to the attempt's error text
WithNoSessionNote(rec) ==
    Put(rec, "error", Str(Get(rec, "error", EmptyStr).s \o <<NoSessionNote>>))

\* result["turn2_reflection"]
ReflectionRecord(t2) ==
    LET base == [result |-> t2.result, cost_usd |-> t2.cost_usd]
    IN  IF Truthy(t2.error) THEN Put(base, "error", t2.error) ELSE base

\* whether the test goes on to the reflection turn
HasSession(t1) == Truthy(t1.session_id)

\* a faulty variant of OverallSuccess: the reflection turn counts
OverallSuccess_BothTurns(t1, t2) == t1.success /\ t2.success

\* a faulty variant of OverallSuccess: the reflection turn decides
OverallSuccess_LastTurn(t1, t2) == t2.success

\* overall success of a test that was reflected on
OverallSuccess(t1, t2) == t1.success

\* the Test Result of a test whose attempt returned no session identifier
ResultWithoutSession(r, t1) ==
    [r EXCEPT !.success = FALSE,
              !.turn1 = [t |-> "dict", d |-> WithNoSessionNote(AttemptRecord(t1))],
              !.total_cost_usd = t1.cost_usd]

\* the Test Result of a test with both turns
ResultWithReflection(r, t1, t2) ==
    [r EXCEPT !.success = OverallSuccess(t1, t2),
              !.turn1 = [t |-> "dict", d |-> AttemptRecord(t1)],
              !.turn2_reflection = [t |-> "dict", d |-> ReflectionRecord(t2)],
              !.total_cost_usd = t1.cost_usd + t2.cost_usd]

NoProc == [kind |-> "none", test |-> 0]
NoTurn == FailedTurn(<<>>)
NoRaw == [Raised(<<>>) EXCEPT !.kind = "none"]

\* the invocation of the attempt turn
AttemptCommand(test_id, tmo) ==
    Command(PromptOf(test_id), DEFAULT_MAX_TURNS, None_, tmo)

\* a faulty variant of ReflectionCommand: the session is not resumed
ReflectionCommand_NewSession(t1, tmo) ==
    Command(Str(<<REFLECTION_PROMPT>>), REFLECTION_MAX_TURNS, None_, tmo)

\* the invocation of the reflection turn
ReflectionCommand(t1, tmo) ==
    Command(Str(<<REFLECTION_PROMPT>>), REFLECTION_MAX_TURNS, t1.session_id, tmo)

-----------------------------------------------------------------------------
(* Recursion guard *)

\* int(os.environ.get("AGENT_TEST_DEPTH", "0")); the variable is <<>> when unset
ReadDepth(e) == IF e = <<>> THEN 0 ELSE e[1]

\* a faulty variant of GuardRejects: one more level gets through
GuardRejects_OffByOne(depth) == depth > MAX_RECURSION_DEPTH + 1

\* check_recursion_depth exits the process
GuardRejects(depth) == depth > MAX_RECURSION_DEPTH

\* the value check_recursion_depth stores in the environment
StoredDepth(depth) == <<depth + 1>>

-----------------------------------------------------------------------------
(* The outcomes used when a whole suite is run: one of each kind of fault *)

FullResponse(sid) ==
    [subtype |-> Str(<<"success">>), result |-> Str(<<ReflectionJson>>),
     session_id |-> Str(<<sid>>), total_cost_usd |-> Num(12346),
     num_turns |-> Num(3)]

Drop(d, k) == [x \in DOMAIN d \ {k} |-> d[x]]

CleanExit == [returncode |-> 0, stderr |-> <<>>]
FailedExit == [returncode |-> 1, stderr |-> <<"agent error">>]

SuiteAttemptOutcomes(sid, tmo) ==
    {Exited(CleanExit, JsonStdout([t |-> "dict", d |-> FullResponse(sid)])),
     Exited(CleanExit,
            JsonStdout([t |-> "dict", d |-> Drop(FullResponse(sid), "session_id")])),
     Exited(CleanExit,
            JsonStdout([t |-> "dict",
                        d |-> Drop(Put(FullResponse(sid), "subtype",
                                       Str(<<"error_max_turns">>)), "result")])),
     Exited(FailedExit, GarbageStdout(<<"not json">>)),
     NotFound,
     Raised(<<"[Errno 13] Permission denied">>)}
    \cup (IF tmo # NoTimeout THEN {TimedOut} ELSE {})

SuiteReflectionOutcomes(sid, tmo) ==
    {Exited(CleanExit, JsonStdout([t |-> "dict", d |-> FullResponse(sid)])),
     Exited(FailedExit, GarbageStdout(<<"not json">>))}
    \cup (IF tmo # NoTimeout THEN {TimedOut} ELSE {})

-----------------------------------------------------------------------------
(* The run command: main, run_test_suite, run_single_test *)

otherVars == <<statsIn, statsOut, chain>>
passVars == <<aggPass>>
suiteVars == <<tests, timeout, idx, results, passed, total_cost>>
testVars == <<result, turn1, turn, raw, proc, calls>>
dirVars == <<disk, writes, aggregation, aggRuns>>

\* main: check_recursion_depth comes first
MainGuard ==
    /\ pc = "start"
    /\ IF GuardRejects(ReadDepth(env))
       THEN /\ pc' = "rejected"
            /\ exitStatus' = <<1>>
            /\ env' = env
       ELSE /\ pc' = "validate"
            /\ env' = StoredDepth(ReadDepth(env))
            /\ exitStatus' = exitStatus
    /\ UNCHANGED <<suiteVars, testVars, dirVars, otherVars, passVars>>

\* main: load_test_suite and validate_suite
MainValidate ==
    /\ pc = "validate"
    /\ IF ValidateSuite(tests)
       THEN pc' = "confirm" /\ exitStatus' = exitStatus
       ELSE pc' = "invalid" /\ exitStatus' = <<1>>
    /\ UNCHANGED <<env, suiteVars, testVars, dirVars, otherVars, passVars>>

\* main: the user declines to continue
MainDecline ==
    /\ pc = "confirm"
    /\ pc' = "aborted"
    /\ exitStatus' = <<0>>
    /\ UNCHANGED <<env, suiteVars, testVars, dirVars, otherVars, passVars>>

\* main: the user confirms and picks a timeout; get_results_dir creates the
\* directory; run_test_suite initialises its counters
MainConfirm ==
    /\ pc = "confirm"
    /\ \E t \in TimeoutChoices : timeout' = t
    /\ pc' = "loop"
    /\ idx' = 1
    /\ results' = <<>>
    /\ passed' = 0
    /\ total_cost' = 0
    /\ UNCHANGED <<env, exitStatus, tests, testVars, dirVars, otherVars, passVars>>

\* a faulty variant of Invoke: the invocation is made a second time
Invoke_Again(log, p) == Append(Append(log, p), p)

\* run_claude_command starts the agent once: subprocess.run
Invoke(log, p) == Append(log, p)

\* run_test_suite enters the loop body for test idx; run_single_test starts
\* the attempt turn
StartTest ==
    /\ pc = "loop"
    /\ idx <= Len(tests)
    /\ result' = InitialResult(tests[idx])
    /\ proc' = [kind |-> "attempt", test |-> idx,
                cmd |-> AttemptCommand(tests[idx], timeout), env |-> env]
    /\ calls' = Invoke(calls, proc')
    /\ pc' = "attempting"
    /\ UNCHANGED <<env, exitStatus, suiteVars, turn1, turn, raw, dirVars, otherVars, passVars>>

\* the attempt turn returns; without a session the test is finalised,
\* otherwise the reflection turn is started
AttemptReturns(outcomes) ==
    /\ pc = "attempting"
    /\ \E o \in outcomes :
        LET t1 == RunClaudeCommand(timeout, o)
        IN  /\ raw' = o
            /\ turn' = t1
            /\ turn1' = t1
            /\ IF ~HasSession(t1)
               THEN /\ result' = ResultWithoutSession(result, t1)
                    /\ proc' = NoProc
                    /\ calls' = calls
                    /\ pc' = "write"
               ELSE /\ result' = [result EXCEPT
                                    !.turn1 = [t |-> "dict", d |-> AttemptRecord(t1)]]
                    /\ proc' = [kind |-> "reflection", test |-> idx,
                                cmd |-> ReflectionCommand(t1, timeout), env |-> env]
                    /\ calls' = Invoke(calls, proc')
                    /\ pc' = "reflecting"
    /\ UNCHANGED <<env, exitStatus, suiteVars, dirVars, otherVars, passVars>>

\* the reflection turn returns and run_single_test finalises the result
ReflectionReturns(outcomes) ==
    /\ pc = "reflecting"
    /\ \E o \in outcomes :
        LET t2 == RunClaudeCommand(timeout, o)
        IN  /\ raw' = o
            /\ turn' = t2
            /\ result' = ResultWithReflection(result, turn1, t2)
    /\ proc' = NoProc
    /\ pc' = "write"
    /\ UNCHANGED <<env, exitStatus, suiteVars, turn1, calls, dirVars, otherVars, passVars>>

\* len(test_id) raises TypeError for an identifier that is not a string
LenRaises(test_id) == test_id.t # "str"

\* run_test_suite: append the result, write it, update the counters, print
\* the result line; an exception raised here is caught nowhere, the
\* interpreter prints a traceback and exits with 1
WriteResult ==
    /\ pc = "write"
    /\ results' = Append(results, result)
    /\ disk' = WriteTestResult(disk, tests[idx], result)
    /\ writes' = Append(writes, [file |-> ResultPath(tests[idx]), by |-> "test",
                                 test |-> idx])
    /\ passed' = IF result.success THEN passed + 1 ELSE passed
    /\ total_cost' = total_cost + result.total_cost_usd
    /\ IF LenRaises(tests[idx])
       THEN /\ pc' = "loop_crashed"
            /\ exitStatus' = <<1>>
            /\ idx' = idx
       ELSE /\ pc' = "loop"
            /\ exitStatus' = exitStatus
            /\ idx' = idx + 1
    /\ UNCHANGED <<env, tests, timeout, testVars, aggregation, aggRuns, otherVars, passVars>>

\* run_test_suite: the loop is over, the list is returned
FinishLoop ==
    /\ pc = "loop"
    /\ idx > Len(tests)
    /\ pc' = "aggregate"
    /\ UNCHANGED <<env, exitStatus, suiteVars, testVars, dirVars, otherVars, passVars>>

-----------------------------------------------------------------------------
(* Reflection payloads *)

\* a line that is exactly three backticks, and one with a language tag
Fence == "<fence>"
TaggedFence == "<fence>json"
FenceOpeners == {Fence, TaggedFence}

\* whitespace: a blank line of a text, a space of a string
Whitespace == {"", " "}

\* str.strip()
RECURSIVE Strip(_)
Strip(s) ==
    IF s = <<>> THEN s
    ELSE IF s[1] \in Whitespace THEN Strip(Tail(s))
    ELSE IF s[Len(s)] \in Whitespace THEN Strip(SubSeq(s, 1, Len(s) - 1))
    ELSE s

\* a faulty variant of StripMarkdownCodeFences: the fence lines stay
StripMarkdownCodeFences_KeepFences(s) == Strip(s)

\* strip_markdown_code_fences on a text given as its lines: the closing fence
\* is searched from the last line backwards
StripMarkdownCodeFences(s) ==
    IF s = <<>> THEN s
    ELSE LET text == Strip(s)
         IN  IF text = <<>> \/ text[1] \notin FenceOpeners THEN text
             ELSE LET closing == {k \in 2..Len(text) : text[k] = Fence}
                  IN  IF closing = {} THEN text
                      ELSE LET end_idx == CHOOSE k \in closing : \A j \in closing : j <= k
                           IN  Strip(SubSeq(text, 2, end_idx - 1))

\* further reflection payloads: two suggestions in either order, strings with
\* surrounding whitespace and a non-string item, a key whose value is not a
\* list, a payload that is a JSON array
DocAB == "{\"improvement_suggestions\": [\"a\", \"b\"]}"
DocBA == "{\"improvement_suggestions\": [\"b\", \"a\"]}"
DocPadded == "{\"improvement_suggestions\": [\" a\", \" \", \"\", 7], ...}"
DocNumber == "{\"improvement_suggestions\": 5}"
DocArray == "[1]"
DocOther == "{\"k\": 1}"

\* the JSON documents of the model and what json.loads makes of them
JsonDocs ==
    (ReflectionJson :> Dict([improvement_suggestions |-> List(<<Str(<<"a">>)>>)]))
    @@ (DocAB :> Dict([improvement_suggestions |-> List(<<Str(<<"a">>), Str(<<"b">>)>>)]))
    @@ (DocBA :> Dict([improvement_suggestions |-> List(<<Str(<<"b">>), Str(<<"a">>)>>)]))
    @@ (DocPadded :>
          Dict([improvement_suggestions |->
                    List(<<Str(<<" ", "a">>), Str(<<" ">>), Str(<<>>), Num(7)>>),
                what_worked |-> List(<<Str(<<" ", "x", " ">>), Str(<<"x">>)>>),
                what_didnt_work |-> List(<<Str(<<"y">>), Str(<<" ">>)>>),
                process_steps |-> List(<<Str(<<"s">>)>>)]))
    @@ (DocNumber :> Dict([improvement_suggestions |-> Num(5)]))
    @@ (DocArray :> Arr(DocArray))
    @@ (DocOther :> Dict([k |-> Num(1)]))

\* json.loads succeeds
JsonParses(s) == Len(s) = 1 /\ s[1] \in DOMAIN JsonDocs

JsonLoads(s) == JsonDocs[s[1]]

\* list with the items of more appended that it does not hold yet
RECURSIVE AppendNew(_, _)
AppendNew(list, more) ==
    IF more = <<>> THEN list
    ELSE AppendNew(IF \E k \in 1..Len(list) : list[k] = Head(more)
                   THEN list ELSE Append(list, Head(more)),
                   Tail(more))

-----------------------------------------------------------------------------
(* Inline aggregation: aggregate_results of run_test_suite.py *)

\* result.get("turn2_reflection", {}) returns None for a test that was not
\* reflected on, and None has no get
InlineRaises(rs) == \E k \in 1..Len(rs) : rs[k].turn2_reflection = None_

InlineFailedEntry(r) ==
    [test_id |-> r.test_id, error |-> Get(r.turn1.d, "error", Str(<<"Unknown error">>))]

RECURSIVE InlineFailedTests(_)
InlineFailedTests(rs) ==
    IF rs = <<>> THEN <<>>
    ELSE IF ~Head(rs).success
         THEN <<InlineFailedEntry(Head(rs))>> \o InlineFailedTests(Tail(rs))
         ELSE InlineFailedTests(Tail(rs))

\* the values of one key of the reflection of a result
InlineReflectionList(r, key) ==
    LET text == Get(r.turn2_reflection.d, "result", EmptyStr)
        clean == StripMarkdownCodeFences(text.s)
        data == JsonLoads(clean)
    IN  IF Truthy(text) /\ JsonParses(clean) /\ data.t = "dict" /\ key \in DOMAIN data.d
        THEN data.d[key].items
        ELSE <<>>

RECURSIVE InlineCollect(_, _, _)
InlineCollect(rs, key, acc) ==
    IF rs = <<>> THEN acc
    ELSE InlineCollect(Tail(rs), key, AppendNew(acc, InlineReflectionList(Head(rs), key)))

RECURSIVE SumCost(_)
SumCost(rs) == IF rs = <<>> THEN 0 ELSE Head(rs).total_cost_usd + SumCost(Tail(rs))

RECURSIVE SumDuration(_)
SumDuration(rs) == IF rs = <<>> THEN 0 ELSE Head(rs).duration_seconds + SumDuration(Tail(rs))

CountPassed(rs) == Cardinality({k \in 1..Len(rs) : rs[k].success})

InlineAggregation(rs) ==
    [summary |-> [total_tests |-> Len(rs),
                  passed |-> CountPassed(rs),
                  failed |-> Cardinality({k \in 1..Len(rs) : ~rs[k].success}),
                  total_cost_usd |-> SumCost(rs),
                  total_duration_seconds |-> SumDuration(rs)],
     failed_tests |-> InlineFailedTests(rs),
     improvement_suggestions |-> InlineCollect(rs, "improvement_suggestions", <<>>),
     what_worked |-> InlineCollect(rs, "what_worked", <<>>),
     what_didnt_work |-> InlineCollect(rs, "what_didnt_work", <<>>)]

NoAggregation == [summary |-> None_]

-----------------------------------------------------------------------------
(* Standalone aggregation pass: aggregate_results.py *)

\* the file names of the model in the order sorted() puts them
NameOrder == <<"1", "2", "3", "4", "_", "aggregate-report", "aggregate-summary">>

NameRank(path) == CHOOSE k \in 1..Len(NameOrder) : NameOrder[k] = path[1]

\* results_dir.glob("*.json")
IsJsonFile(path) == path[Len(path)] = ".json"

\* a faulty variant of LoadedPaths: every *.json file is read
LoadedPaths_AllJson(d) == {path \in DOMAIN d : IsJsonFile(path)}

\* the files load_test_results reads
LoadedPaths(d) ==
    {path \in DOMAIN d : /\ IsJsonFile(path)
                         /\ path[1] # "_"
                         /\ path # SummaryPath}

RECURSIVE SortedPaths(_)
SortedPaths(S) ==
    IF S = {} THEN <<>>
    ELSE LET first == CHOOSE x \in S : \A y \in S : NameRank(x) <= NameRank(y)
         IN  <<first>> \o SortedPaths(S \ {first})

\* json.load raises JSONDecodeError: the file is skipped with a warning
IsMalformed(content) == content.kind = "malformed"

\* load_test_results: json.load of every file that is read
LoadTestResults(d) ==
    LET paths == SortedPaths({path \in LoadedPaths(d) : ~IsMalformed(d[path])})
    IN  [k \in 1..Len(paths) |-> d[paths[k]].value]

\* isinstance(value, dict) for a loaded record: the records of the model are
\* dicts, every other JSON value carries a type tag
IsRecord(v) == "t" \notin DOMAIN v

BundleKeys == {"improvement_suggestions", "what_worked", "what_didnt_work", "process_steps"}

EmptyBundle == [k \in BundleKeys |-> List(<<>>)]

\* parse_reflection
ParseReflection(reflection) ==
    IF ~Truthy(reflection) THEN EmptyBundle
    ELSE LET reflection_text == Get(reflection.d, "result", EmptyStr)
         IN  IF ~Truthy(reflection_text) THEN EmptyBundle
             ELSE LET clean_text == StripMarkdownCodeFences(reflection_text.s)
                  IN  IF JsonParses(clean_text) /\ JsonLoads(clean_text).t = "dict"
                      THEN [k \in BundleKeys |->
                                Get(JsonLoads(clean_text).d, k, List(<<>>))]
                      ELSE EmptyBundle

\* the items a loop of collect_suggestions keeps: non-empty strings
Kept(item) == Truthy(item) /\ item.t = "str"

\* item.strip() of the items a loop keeps, in the order of the list
StrippedItems(items) ==
    LET kept == SelectSeq(items, Kept)
    IN  [k \in 1..Len(kept) |-> Strip(kept[k].s)]

\* parse_reflection(result.get("turn2_reflection"))
ParsedOf(r) == ParseReflection(Get(r, "turn2_reflection", None_))

\* the keys of the statements suggestion_counter[...] += 1 of a pass, in the
\* order in which they are executed
RECURSIVE Increments(_)
Increments(rs) ==
    IF rs = <<>> THEN <<>>
    ELSE StrippedItems(ParsedOf(Head(rs)).improvement_suggestions.items)
         \o Increments(Tail(rs))

\* the keys of a Counter in the order in which they were inserted
FirstSeen(incs) ==
    LET firsts == {k \in 1..Len(incs) : \A j \in 1..(k - 1) : incs[j] # incs[k]}
    IN  [i \in 1..Cardinality(firsts) |->
            incs[CHOOSE k \in firsts : Cardinality({j \in firsts : j < k}) = i - 1]]

\* collections.Counter after a sequence of increments: the keys in insertion
\* order and their counts
CounterOf(incs) ==
    [keys |-> FirstSeen(incs),
     n |-> [x \in {incs[k] : k \in 1..Len(incs)} |->
               Cardinality({k \in 1..Len(incs) : incs[k] = x})]]

\* a faulty variant of MostCommon: the keys in insertion order
MostCommon_InsertionOrder(keys, n) == keys

\* Counter.most_common(): by descending count, equal counts in insertion
\* order (a stable sort of the items)
MostCommon(keys, n) ==
    LET Before(j, i) == \/ n[keys[j]] > n[keys[i]]
                        \/ n[keys[j]] = n[keys[i]] /\ j < i
        Rank(i) == 1 + Cardinality({j \in 1..Len(keys) : Before(j, i)})
    IN  [r \in 1..Len(keys) |-> keys[CHOOSE i \in 1..Len(keys) : Rank(i) = r]]

\* the first characters of the strings of the model in the order of sorted()
Alphabet == <<" ", "a", "b", "s", "x", "y">>

CharRank(s) == IF s = <<>> THEN 0 ELSE CHOOSE k \in 1..Len(Alphabet) : Alphabet[k] = s[1]

\* sorted(set of strings)
SortedStrings(S) ==
    [r \in 1..Cardinality(S) |->
        CHOOSE x \in S : Cardinality({y \in S : CharRank(y) < CharRank(x)}) = r - 1]

\* worked_set and didnt_work_set after the loops of a pass
FeedbackSet(rs, key) ==
    UNION {{StrippedItems(ParsedOf(rs[k])[key].items)[i] :
                i \in 1..Len(StrippedItems(ParsedOf(rs[k])[key].items))} :
           k \in 1..Len(rs)}

\* the only element of a set of one element
Only(S) == CHOOSE x \in S : TRUE

\* collect_suggestions; the bundles, the counter and the two sets are values
\* computed once
CollectSuggestions(rs) ==
    Only({[improvement_suggestions |-> MostCommon(suggestion_counter.keys,
                                                   suggestion_counter.n),
           what_worked |-> SortedStrings(worked_set),
           what_didnt_work |-> SortedStrings(didnt_work_set),
           suggestion_counts |-> suggestion_counter.n] :
            suggestion_counter \in {CounterOf(incs) : incs \in {Increments(rs)}},
            worked_set \in {FeedbackSet(rs, "what_worked")},
            didnt_work_set \in {FeedbackSet(rs, "what_didnt_work")}})

\* iterating a value that is neither a list nor another iterable raises
\* TypeError
NotIterable(v) == v.t \in {"num", "none"}

\* the exceptions of one pass: r.get on a loaded value that is not a dict
\* (calculate_statistics), a for loop over a value that is not iterable
\* (collect_suggestions)
StandaloneRaises(rs) ==
    \/ \E k \in 1..Len(rs) : ~IsRecord(rs[k])
    \/ \E k \in 1..Len(rs) :
          \E key \in {"improvement_suggestions", "what_worked", "what_didnt_work"} :
              NotIterable(ParsedOf(rs[k])[key])

\* round(num / den) to the nearest integer, ties to even
RoundDiv(num, den) ==
    LET q == num \div den
        r == num % den
    IN  IF 2 * r < den THEN q
        ELSE IF 2 * r > den THEN q + 1
        ELSE IF q % 2 = 0 THEN q ELSE q + 1

\* sum(r.get(key, 0.0) for r in results)
RECURSIVE SumOf(_, _)
SumOf(rs, key) == IF rs = <<>> THEN 0 ELSE Get(Head(rs), key, 0) + SumOf(Tail(rs), key)

\* sum(1 for r in results if r.get("success", False))
PassedCount(rs) == Cardinality({k \in 1..Len(rs) : Get(rs[k], "success", FALSE)})

RECURSIVE SumTurns(_)
SumTurns(rs) ==
    IF rs = <<>> THEN 0
    ELSE LET t1 == Get(Head(rs), "turn1", Dict(EmptyDict))
         IN  (IF Truthy(t1) THEN Get(t1.d, "num_turns", 0) ELSE 0)
             + SumTurns(Tail(rs))

\* a faulty variant of SuccessRate: truncation instead of rounding
SuccessRate_Truncated(p, total) == (1000 * p) \div total

\* success_rate in thousandths
SuccessRate(p, total) == RoundDiv(1000 * p, total)

FailedCount(rs, p) == Len(rs) - p

\* calculate_statistics; rates in thousandths, turns in tenths, costs in
\* 0.00001 USD rounded to 4 decimals, durations in hundredths of a second
CalculateStatistics(rs) ==
    IF rs = <<>>
    THEN [total_tests |-> 0, passed |-> 0, failed |-> 0, success_rate |-> 0,
          total_cost_usd |-> 0, total_duration_seconds |-> 0,
          avg_turns_per_test |-> 0, avg_cost_per_test |-> 0,
          avg_duration_per_test |-> 0]
    ELSE LET total == Len(rs)
             p == PassedCount(rs)
             cost == SumOf(rs, "total_cost_usd")
             duration == SumOf(rs, "duration_seconds")
         IN  [total_tests |-> total,
              passed |-> p,
              failed |-> FailedCount(rs, p),
              success_rate |-> SuccessRate(p, total),
              total_cost_usd |-> 10 * RoundDiv(cost, 10),
              total_duration_seconds |-> duration,
              avg_turns_per_test |-> RoundDiv(10 * SumTurns(rs), total),
              avg_cost_per_test |-> 10 * RoundDiv(cost, 10 * total),
              avg_duration_per_test |-> RoundDiv(duration, total)]

NoStats == [total_tests |-> 0]

\* collect_failed_tests
FailedEntry(r) ==
    LET t1 == Get(r, "turn1", Dict(EmptyDict))
        error == IF Truthy(t1) THEN Get(t1.d, "error", None_) ELSE None_
    IN  [test_id |-> Get(r, "test_id", Str(<<"unknown">>)),
         error |-> IF Truthy(error) THEN error
                   ELSE Str(<<"Test failed (no specific error message)">>)]

RECURSIVE CollectFailedTests(_)
CollectFailedTests(rs) ==
    IF rs = <<>> THEN <<>>
    ELSE IF ~Get(Head(rs), "success", FALSE)
         THEN <<FailedEntry(Head(rs))>> \o CollectFailedTests(Tail(rs))
         ELSE CollectFailedTests(Tail(rs))

\* generate_summary_json
SummaryJson(rs) ==
    LET suggestions == CollectSuggestions(rs)
    IN  [statistics |-> CalculateStatistics(rs),
         all_improvement_suggestions |-> suggestions.improvement_suggestions,
         what_worked |-> suggestions.what_worked,
         what_didnt_work |-> suggestions.what_didnt_work,
         failed_tests |-> CollectFailedTests(rs)]

NoSummary == [statistics |-> NoStats]

\* no pass has run
NoPass == [status |-> "none", loaded |-> <<>>, summary |-> NoSummary]

\* one run of aggregate_results.py: main catches every exception of
\* aggregate_results, reports it and exits with 1 before anything is written
PassOf(d) ==
    LET rs == LoadTestResults(d)
    IN  IF StandaloneRaises(rs)
        THEN [status |-> "raised", loaded |-> rs, summary |-> NoSummary]
        ELSE [status |-> "ok", loaded |-> rs, summary |-> SummaryJson(rs)]

\* the results directory after one pass: write_outputs
StandalonePass(d) ==
    LET run == PassOf(d)
    IN  IF run.status = "raised" THEN d
        ELSE WriteFile(WriteFile(d, SummaryPath, [kind |-> "summary", value |-> run.summary]),
                       ReportPath, [kind |-> "report", value |-> run.summary])

StandaloneWrites(d) ==
    IF PassOf(d).status = "raised" THEN <<>>
    ELSE <<[file |-> SummaryPath, by |-> "standalone", test |-> 0],
           [file |-> ReportPath, by |-> "standalone", test |-> 0]>>

-----------------------------------------------------------------------------
(* The run command, continued: aggregation and exit *)

\* main calls aggregate_results(results, results_dir): an exception raised in
\* it is not caught, the interpreter prints a traceback and exits with 1
InlineAggregate ==
    /\ pc = "aggregate"
    /\ IF InlineRaises(results)
       THEN /\ pc' = "crashed"
            /\ exitStatus' = <<1>>
            /\ UNCHANGED <<aggregation, disk, writes>>
       ELSE /\ aggregation' = InlineAggregation(results)
            /\ disk' = WriteFile(disk, LegacyPath,
                                 [kind |-> "legacy", value |-> aggregation'])
            /\ writes' = Append(writes, [file |-> LegacyPath, by |-> "inline", test |-> 0])
            /\ pc' = "standalone"
            /\ exitStatus' = exitStatus
    /\ UNCHANGED <<env, suiteVars, testVars, aggRuns, otherVars, passVars>>

\* aggregate_results runs the standalone script on the results directory
RunStandalone ==
    /\ pc = "standalone"
    /\ disk' = StandalonePass(disk)
    /\ writes' = writes \o StandaloneWrites(disk)
    /\ aggPass' = PassOf(disk)
    /\ aggRuns' = aggRuns + 1
    /\ pc' = "exit"
    /\ UNCHANGED <<env, exitStatus, suiteVars, testVars, aggregation, otherVars>>

\* all(r["success"] for r in results)
AllPassed(rs) == \A k \in 1..Len(rs) : rs[k].success

\* main: sys.exit(0 if all_passed else 1)
MainExit ==
    /\ pc = "exit"
    /\ exitStatus' = <<IF AllPassed(results) THEN 0 ELSE 1>>
    /\ pc' = "exited"
    /\ UNCHANGED <<env, suiteVars, testVars, dirVars, otherVars, passVars>>

\* the standalone aggregation pass is run again on the directory of a run
\* that is over
RerunStandalone ==
    /\ pc \in {"exited", "crashed", "loop_crashed"}
    /\ aggRuns < MaxAggRuns
    /\ disk' = StandalonePass(disk)
    /\ writes' = writes \o StandaloneWrites(disk)
    /\ aggPass' = PassOf(disk)
    /\ aggRuns' = aggRuns + 1
    /\ UNCHANGED <<pc, env, exitStatus, suiteVars, testVars, aggregation, otherVars>>

-----------------------------------------------------------------------------
(* Specification of the run command *)

\* the depth counter is inherited unset or beyond the maximum (the nested
\* invocations in between are the subject of ChainSpec)
InitialDepths == {<<>>, <<MAX_RECURSION_DEPTH + 1>>}

Init ==
    /\ pc = "start"
    /\ env \in InitialDepths
    /\ exitStatus = <<>>
    /\ tests \in TestLists(MaxTests)
    /\ timeout = NoTimeout
    /\ idx = 1
    /\ results = <<>>
    /\ passed = 0
    /\ total_cost = 0
    /\ result = InitialResult(Str(<<>>))
    /\ turn1 = NoTurn
    /\ turn = NoTurn
    /\ raw = NoRaw
    /\ proc = NoProc
    /\ calls = <<>>
    /\ disk = EmptyDir
    /\ writes = <<>>
    /\ aggregation = NoAggregation
    /\ aggRuns = 0
    /\ statsIn = <<>>
    /\ statsOut = NoStats
    /\ aggPass = NoPass
    /\ chain = <<>>

Next ==
    \/ MainGuard
    \/ MainValidate
    \/ MainDecline
    \/ MainConfirm
    \/ StartTest
    \/ AttemptReturns(SuiteAttemptOutcomes(SessionIds[idx], timeout))
    \/ ReflectionReturns(SuiteReflectionOutcomes(SessionIds[idx], timeout))
    \/ WriteResult
    \/ FinishLoop
    \/ InlineAggregate
    \/ RunStandalone
    \/ MainExit
    \/ RerunStandalone

Spec == Init /\ [][Next]_vars

\* every call of the agent returns (the process exits, is killed by the
\* timeout, or the call raises) and the run command keeps executing
RunNext ==
    \/ MainGuard
    \/ MainValidate
    \/ MainDecline
    \/ MainConfirm
    \/ StartTest
    \/ AttemptReturns(SuiteAttemptOutcomes(SessionIds[idx], timeout))
    \/ ReflectionReturns(SuiteReflectionOutcomes(SessionIds[idx], timeout))
    \/ WriteResult
    \/ FinishLoop
    \/ InlineAggregate
    \/ RunStandalone
    \/ MainExit

FairSpec == Init /\ [][Next]_vars /\ WF_vars(RunNext)

-----------------------------------------------------------------------------
(* Specification of one test: run_single_test with every response shape *)

TestInit ==
    /\ pc = "loop"
    /\ env = <<1>>
    /\ exitStatus = <<>>
    /\ tests = <<Str(<<"t2">>)>>
    /\ timeout \in TimeoutChoices
    /\ idx = 1
    /\ results = <<>>
    /\ passed = 0
    /\ total_cost = 0
    /\ result = InitialResult(Str(<<>>))
    /\ turn1 = NoTurn
    /\ turn = NoTurn
    /\ raw = NoRaw
    /\ proc = NoProc
    /\ calls = <<>>
    /\ disk = EmptyDir
    /\ writes = <<>>
    /\ aggregation = NoAggregation
    /\ aggRuns = 0
    /\ statsIn = <<>>
    /\ statsOut = NoStats
    /\ aggPass = NoPass
    /\ chain = <<>>

TestNext ==
    \/ StartTest
    \/ AttemptReturns(Outcomes(SessionIds[idx], timeout))
    \/ ReflectionReturns(Outcomes(SessionIds[idx], timeout))
    \/ WriteResult

TestSpec == TestInit /\ [][TestNext]_vars

-----------------------------------------------------------------------------
(* Specification of calculate_statistics applied to a list of Test Results *)

\* Turn Results as run_claude_command returns them
SampleTurn(ok, sid, cost, turns) ==
    [success |-> ok, result |-> Str(<<"answer">>), session_id |-> sid,
     cost_usd |-> cost, num_turns |-> turns,
     error |-> IF ok THEN None_ ELSE Str(<<"agent error">>)]

\* Test Results as run_single_test builds them: passed and failed, with and
\* without a reflection turn, cheap and costly
StatResults ==
    {ResultWithReflection(InitialResult(Str(<<"t2">>)),
                          SampleTurn(ok, Str(<<"sid-1">>), cost, 3),
                          SampleTurn(TRUE, Str(<<"sid-1">>), 4, 1)) :
        ok \in BOOLEAN, cost \in {0, 12346}}
    \cup {ResultWithoutSession(InitialResult(Str(<<"t2">>)),
                               SampleTurn(ok, None_, 0, 0)) : ok \in BOOLEAN}

RECURSIVE ResultLists(_)
ResultLists(n) ==
    IF n = 0 THEN {<<>>}
    ELSE LET shorter == ResultLists(n - 1)
         IN  shorter \cup {Append(l, r) : l \in {x \in shorter : Len(x) = n - 1},
                                          r \in StatResults}

StatsInit ==
    /\ pc = "statistics"
    /\ statsIn \in ResultLists(MaxResults)
    /\ statsOut = NoStats
    /\ aggPass = NoPass
    /\ env = <<>>
    /\ exitStatus = <<>>
    /\ tests = <<>>
    /\ timeout = NoTimeout
    /\ idx = 1
    /\ results = <<>>
    /\ passed = 0
    /\ total_cost = 0
    /\ result = InitialResult(Str(<<>>))
    /\ turn1 = NoTurn
    /\ turn = NoTurn
    /\ raw = NoRaw
    /\ proc = NoProc
    /\ calls = <<>>
    /\ disk = EmptyDir
    /\ writes = <<>>
    /\ aggregation = NoAggregation
    /\ aggRuns = 0
    /\ chain = <<>>

\* calculate_statistics(results) returns
ApplyStatistics ==
    /\ pc = "statistics"
    /\ statsOut' = CalculateStatistics(statsIn)
    /\ pc' = "statistics_done"
    /\ UNCHANGED <<env, exitStatus, suiteVars, testVars, dirVars, statsIn, chain,
                   passVars>>

StatsNext == ApplyStatistics

StatsSpec == StatsInit /\ [][StatsNext]_vars

-----------------------------------------------------------------------------
(* Specification of nested invocations: the run command starts agents, an   *)
(* agent may start the run command again, every child inherits the          *)
(* environment of its parent                                                *)

\* a process of the chain: its environment, where it is, the depth it read,
\* the children it started, its exit status (<<>> while it runs)
HarnessFrame(e) ==
    [kind |-> "harness", env |-> e, at |-> "start", depth |-> 0, spawned |-> 0,
     exit |-> <<>>]
AgentFrame(e) ==
    [kind |-> "agent", env |-> e, at |-> "running", depth |-> 0, spawned |-> 0,
     exit |-> <<>>]

Top == chain[Len(chain)]

SetTop(f) == [chain EXCEPT ![Len(chain)] = f]

ChainInit ==
    /\ pc = "chain"
    /\ \E e \in {<<>>} \cup {<<d>> : d \in 0..MaxEnvDepth} : chain = <<HarnessFrame(e)>>
    /\ statsIn = <<>>
    /\ statsOut = NoStats
    /\ aggPass = NoPass
    /\ env = <<>>
    /\ exitStatus = <<>>
    /\ tests = <<>>
    /\ timeout = NoTimeout
    /\ idx = 1
    /\ results = <<>>
    /\ passed = 0
    /\ total_cost = 0
    /\ result = InitialResult(Str(<<>>))
    /\ turn1 = NoTurn
    /\ turn = NoTurn
    /\ raw = NoRaw
    /\ proc = NoProc
    /\ calls = <<>>
    /\ disk = EmptyDir
    /\ writes = <<>>
    /\ aggregation = NoAggregation
    /\ aggRuns = 0

chainRest == <<pc, env, exitStatus, suiteVars, testVars, dirVars, statsIn, statsOut,
               passVars>>

\* main of the newest run command: check_recursion_depth
ChainGuard ==
    /\ chain # <<>>
    /\ Top.kind = "harness"
    /\ Top.at = "start"
    /\ LET depth == ReadDepth(Top.env)
       IN  IF GuardRejects(depth)
           THEN chain' = SetTop([Top EXCEPT !.at = "rejected", !.depth = depth,
                                            !.exit = <<1>>])
           ELSE chain' = SetTop([Top EXCEPT !.at = "running", !.depth = depth,
                                            !.env = StoredDepth(depth)])
    /\ UNCHANGED chainRest

\* run_claude_command: subprocess.run starts the agent with the environment
\* of the run command
ChainSpawnAgent ==
    /\ chain # <<>>
    /\ Top.kind = "harness"
    /\ Top.at = "running"
    /\ Top.spawned < MaxSpawns
    /\ chain' = Append(SetTop([Top EXCEPT !.spawned = @ + 1]), AgentFrame(Top.env))
    /\ UNCHANGED chainRest

\* the agent under test starts the run command
ChainNestedInvoke ==
    /\ chain # <<>>
    /\ Top.kind = "agent"
    /\ Top.spawned < MaxSpawns
    /\ chain' = Append(SetTop([Top EXCEPT !.spawned = @ + 1]), HarnessFrame(Top.env))
    /\ UNCHANGED chainRest

\* the newest process exits
ChainReturn ==
    /\ Len(chain) > 1
    /\ Top.at \in {"running", "rejected"}
    /\ chain' = SubSeq(chain, 1, Len(chain) - 1)
    /\ UNCHANGED chainRest

ChainNext ==
    \/ ChainGuard
    \/ ChainSpawnAgent
    \/ ChainNestedInvoke
    \/ ChainReturn

ChainSpec == ChainInit /\ [][ChainNext]_vars

-----------------------------------------------------------------------------
(* Specification of two executions of run_single_test on one test whose      *)
(* attempt turns return the same and whose reflection turns may differ       *)

\* run_single_test as a function of what its invocations return
RunSingleTest(test_id, tmo, attempt, reflection) ==
    LET t1 == RunClaudeCommand(tmo, attempt)
    IN  IF ~HasSession(t1) THEN ResultWithoutSession(InitialResult(test_id), t1)
        ELSE ResultWithReflection(InitialResult(test_id), t1,
                                  RunClaudeCommand(tmo, reflection))

PairInit ==
    /\ pc = "pair"
    /\ timeout \in TimeoutChoices
    /\ \E attempt \in Outcomes(SessionIds[1], timeout),
          first \in SuiteReflectionOutcomes(SessionIds[1], timeout),
          second \in SuiteReflectionOutcomes(SessionIds[1], timeout) :
            statsIn = [attempt |-> attempt, reflections |-> <<first, second>>]
    /\ statsOut = NoStats
    /\ aggPass = NoPass
    /\ env = <<1>>
    /\ exitStatus = <<>>
    /\ tests = <<Str(<<"t2">>)>>
    /\ idx = 1
    /\ results = <<>>
    /\ passed = 0
    /\ total_cost = 0
    /\ result = InitialResult(Str(<<>>))
    /\ turn1 = NoTurn
    /\ turn = NoTurn
    /\ raw = NoRaw
    /\ proc = NoProc
    /\ calls = <<>>
    /\ disk = EmptyDir
    /\ writes = <<>>
    /\ aggregation = NoAggregation
    /\ aggRuns = 0
    /\ chain = <<>>

\* both executions run to their Test Result
RunPair ==
    /\ pc = "pair"
    /\ statsOut' = [k \in 1..2 |->
                        RunSingleTest(tests[1], timeout, statsIn.attempt,
                                      statsIn.reflections[k])]
    /\ pc' = "pair_done"
    /\ UNCHANGED <<env, exitStatus, suiteVars, testVars, dirVars, statsIn, chain,
                   passVars>>

PairNext == RunPair

PairSpec == PairInit /\ [][PairNext]_vars

-----------------------------------------------------------------------------
(* Specification of parse_reflection: one call on one reflection value       *)

\* what the agent can answer to the reflection prompt: JSON documents and
\* prose, each a text of one line
Payloads ==
    {<<ReflectionJson>>, <<DocAB>>, <<DocBA>>, <<DocPadded>>, <<DocNumber>>,
     <<DocArray>>, <<"prose">>, <<DocOther>>}

\* the ways a payload is wrapped: bare, in a fence with or without the
\* language tag, with blank lines around it, with prose after the fence,
\* with further fence lines after the first closing one, without a closing
\* fence
Wrappings ==
    {"bare", "fence", "tagged", "padded", "padded_fence", "padded_tagged",
     "inner_blank", "trailing_prose", "second_fence", "second_block", "unclosed"}

Wrap(w, payload) ==
    CASE w = "bare" -> payload
      [] w = "fence" -> <<Fence>> \o payload \o <<Fence>>
      [] w = "tagged" -> <<TaggedFence>> \o payload \o <<Fence>>
      [] w = "padded" -> <<"">> \o payload \o <<"", "">>
      [] w = "padded_fence" -> <<"", Fence>> \o payload \o <<Fence, "">>
      [] w = "padded_tagged" -> <<"", TaggedFence>> \o payload \o <<Fence, "">>
      [] w = "inner_blank" -> <<Fence, "">> \o payload \o <<"", Fence>>
      [] w = "trailing_prose" -> <<TaggedFence>> \o payload \o <<Fence, "prose">>
      [] w = "second_fence" -> <<Fence>> \o payload \o <<Fence, "prose", Fence>>
      [] w = "second_block" ->
             <<TaggedFence>> \o payload \o <<Fence, "prose", Fence, "more", Fence>>
      [] w = "unclosed" -> <<TaggedFence>> \o payload

\* the values of result["turn2_reflection"]: absent, a turn without text, a
\* turn with an empty text, a turn with a text
ReflectionOf(text) == Dict([result |-> Str(text), cost_usd |-> 4])

Reflections ==
    {None_, Dict(EmptyDict), Dict([cost_usd |-> 4]), ReflectionOf(<<>>)}
    \cup {ReflectionOf(Wrap(w, payload)) : w \in Wrappings, payload \in Payloads}

ParseInit ==
    /\ pc = "parse"
    /\ statsIn \in Reflections
    /\ statsOut = NoStats
    /\ aggPass = NoPass
    /\ env = <<>>
    /\ exitStatus = <<>>
    /\ tests = <<>>
    /\ timeout = NoTimeout
    /\ idx = 1
    /\ results = <<>>
    /\ passed = 0
    /\ total_cost = 0
    /\ result = InitialResult(Str(<<>>))
    /\ turn1 = NoTurn
    /\ turn = NoTurn
    /\ raw = NoRaw
    /\ proc = NoProc
    /\ calls = <<>>
    /\ disk = EmptyDir
    /\ writes = <<>>
    /\ aggregation = NoAggregation
    /\ aggRuns = 0
    /\ chain = <<>>

\* one call of parse_reflection
ApplyParse ==
    /\ pc = "parse"
    /\ statsOut' = ParseReflection(statsIn)
    /\ pc' = "parse_done"
    /\ UNCHANGED <<env, exitStatus, suiteVars, testVars, dirVars, statsIn, chain,
                   passVars>>

ParseNext == ApplyParse

ParseSpec == ParseInit /\ [][ParseNext]_vars

-----------------------------------------------------------------------------
(* Specification of aggregate_results.py run on a results directory          *)

MaxFiles == 2       \* files of the directory besides the aggregate files

\* a Test Result whose reflection turn answered with a text
ReflectedResult(ok, text) ==
    ResultWithReflection(InitialResult(Str(<<"t2">>)),
                         SampleTurn(ok, Str(<<"sid-1">>), 12346, 3),
                         [SampleTurn(TRUE, Str(<<"sid-1">>), 4, 1)
                              EXCEPT !.result = Str(text)])

AggTexts ==
    {<<ReflectionJson>>, <<DocAB>>, <<DocBA>>, <<DocPadded>>, <<DocNumber>>,
     <<"prose">>, Wrap("tagged", <<DocBA>>), Wrap("second_fence", <<DocAB>>)}

\* what a *.json file of the directory can hold: a Test Result, text that is
\* not JSON, JSON that is not a Test Result
FileContents ==
    {[kind |-> "test_result", value |-> ReflectedResult(TRUE, text)] : text \in AggTexts}
    \cup {[kind |-> "test_result", value |-> ReflectedResult(FALSE, <<DocAB>>)],
          [kind |-> "test_result",
           value |-> ResultWithoutSession(InitialResult(Str(<<"t2">>)),
                                          SampleTurn(TRUE, None_, 0, 0))],
          [kind |-> "malformed", value |-> None_],
          [kind |-> "json", value |-> Arr(DocArray)],
          [kind |-> "json", value |-> EmptyDict]}

\* the name of the k-th file
FileName(k) == <<ToString(k), ".json">>

\* the directories of n files
Directories(n) ==
    UNION {[{FileName(k) : k \in 1..m} -> FileContents] : m \in 0..n}

\* a directory as an earlier run of the suite left it: with or without the
\* legacy aggregation file
WithLegacy(d, legacy) ==
    IF legacy THEN WriteFile(d, LegacyPath, [kind |-> "legacy", value |-> NoAggregation])
    ELSE d

AggInit ==
    /\ pc = "exited"
    /\ \E d \in Directories(MaxFiles), legacy \in BOOLEAN : disk = WithLegacy(d, legacy)
    /\ statsIn = <<>>
    /\ statsOut = NoStats
    /\ aggPass = NoPass
    /\ env = <<>>
    /\ exitStatus = <<0>>
    /\ tests = <<>>
    /\ timeout = NoTimeout
    /\ idx = 1
    /\ results = <<>>
    /\ passed = 0
    /\ total_cost = 0
    /\ result = InitialResult(Str(<<>>))
    /\ turn1 = NoTurn
    /\ turn = NoTurn
    /\ raw = NoRaw
    /\ proc = NoProc
    /\ calls = <<>>
    /\ writes = <<>>
    /\ aggregation = NoAggregation
    /\ aggRuns = 0
    /\ chain = <<>>

AggNext == RerunStandalone

AggSpec == AggInit /\ [][AggNext]_vars

-----------------------------------------------------------------------------
(* Claims about run_single_test, checked under TestSpec *)

\* run_single_test has returned: result is the Test Result it produced
TestFinished == pc = "write"

\* C1 as stated: for every Test Result produced by run_single_test, success
\* is true if and only if the attempt turn succeeded, with or without a
\* session identifier
C1_Original ==
    TestFinished => (result.success <=> turn1.success)

\* C1 amended: success is true if and only if the attempt turn succeeded and
\* returned a session identifier, whatever the reflection turn returned
C1_SuccessIffAttemptWithSession ==
    TestFinished => (result.success <=> (turn1.success /\ Truthy(turn1.session_id)))

\* a test that passed although its reflection turn failed
C1_Witness ==
    /\ TestFinished
    /\ result.success
    /\ result.turn2_reflection # None_
    /\ ~turn.success

\* the step in which an attempt returns without a session identifier
C2_NoSessionStep ==
    (pc = "attempting" /\ ~Truthy(turn1'.session_id))
        => /\ pc' = "write"
           /\ calls' = calls
           /\ proc' = NoProc

\* the Test Result of a test whose attempt returned no session identifier
C2_NoSessionResult ==
    (TestFinished /\ ~Truthy(turn1.session_id))
        => /\ Len(calls) = 1
           /\ result.success = FALSE
           /\ result.turn2_reflection = None_
           /\ "error" \in DOMAIN result.turn1.d
           /\ Contains(result.turn1.d.error, NoSessionNote)

\* C2: when the attempt returns no session identifier the test goes from
\* Attempting directly to Done: no second invocation, success = false, the
\* reflection field stays absent, and the attempt's error text contains the
\* no-session note
C2_NoSessionFinalizesFailed ==
    [][C2_NoSessionStep]_vars /\ []C2_NoSessionResult

\* an attempt that succeeded and returned no session identifier
C2_Witness ==
    /\ TestFinished
    /\ turn1.success
    /\ ~Truthy(turn1.session_id)
    /\ result.turn1.d.error = Str(<<NoSessionNote>>)

-----------------------------------------------------------------------------
(* Claims about the suite run, checked under Spec and FairSpec *)

\* the record of the j-th finished test is in the results directory
OnDisk(j) ==
    /\ ResultPath(tests[j]) \in DOMAIN disk
    /\ disk[ResultPath(tests[j])] = [kind |-> "test_result", value |-> results[j]]

\* the suite runner is inside run_test_suite
InLoop == pc \in {"loop", "attempting", "reflecting", "write"}

\* run_test_suite has been entered and no aggregation has started
BeforeAggregation == (InLoop \/ pc \in {"aggregate", "loop_crashed"}) /\ aggRuns = 0

\* C3 as stated: the Test Result of test i is written before the agent is
\* invoked for test i+1, hence at any point of the run every finished test,
\* except at most the one in flight, has its record on disk
C3_Original ==
    BeforeAggregation =>
        /\ Len(writes) = Len(results)
        /\ InLoop => Len(results) = idx - 1
        /\ \A j \in 1..Len(results) : OnDisk(j)

\* the attempt invocations made so far are those of tests 1, 2, ... in order
AttemptsInOrder ==
    LET attempts == SelectSeq(calls, LAMBDA c : c.kind = "attempt")
    IN  /\ \A k \in 1..Len(attempts) : attempts[k].test = k
        /\ Len(attempts) = IF pc \in {"attempting", "reflecting", "write"}
                           THEN Len(results) + 1 ELSE Len(results)

\* the list run_test_suite builds holds one Test Result per test, in order
ResultsInOrder ==
    /\ Len(results) <= Len(tests)
    /\ \A j \in 1..Len(results) : results[j].test_id = tests[j]

LoopEntered == pc = "loop" /\ idx = 1

LoopFinished == pc = "aggregate" /\ Len(results) = Len(tests)

\* C4 as stated: a fault local to one test never aborts the suite runner: for
\* every suite each test is executed exactly once in list order, the loop
\* eventually finishes, and the returned list holds one Test Result per test
\* in the same order
C4_Original ==
    /\ [](AttemptsInOrder /\ ResultsInOrder)
    /\ [](InLoop => exitStatus = <<>>)
    /\ LoopEntered ~> LoopFinished

\* the failed-test entry of the j-th result in the inline aggregation
ItemizedInline(j) ==
    /\ aggregation # NoAggregation
    /\ \E k \in 1..Len(aggregation.failed_tests) :
          /\ aggregation.failed_tests[k].test_id = results[j].test_id
          /\ aggregation.failed_tests[k].error = results[j].turn1.d.error

\* the failed-test entry of the j-th result in aggregate-summary.json
ItemizedInSummary(j) ==
    /\ SummaryPath \in DOMAIN disk
    /\ disk[SummaryPath].kind = "summary"
    /\ \E k \in 1..Len(disk[SummaryPath].value.failed_tests) :
          /\ disk[SummaryPath].value.failed_tests[k].test_id = results[j].test_id
          /\ disk[SummaryPath].value.failed_tests[k].error = results[j].turn1.d.error

\* C5 as stated: after the suite runner has finished the aggregation step
\* always completes, each failing test is itemized with its identifier and
\* error, and no test failure surfaces as an uncaught process-level error
C5_Original ==
    /\ pc # "crashed"
    /\ pc = "exited" =>
          \A j \in 1..Len(results) :
              ~results[j].success => ItemizedInline(j) /\ ItemizedInSummary(j)

-----------------------------------------------------------------------------
(* Claims about run_claude_command, checked under TestSpec *)

\* the turn count the response reports (1 when it reports none)
ReportedTurns(o) ==
    Get(o.stdout.value.d, "num_turns", Get(o.stdout.value.d, "numTurns", Num(1))).n

\* the response has response text under one of the two key names
HasText(o) ==
    Truthy(Get(o.stdout.value.d, "result", Get(o.stdout.value.d, "message", EmptyStr)))

NonEmptyStr(v) == v.t = "str" /\ v.s # <<>>

\* the error text of a turn that stopped at the turn limit
IsMaxTurnsError(v) ==
    v.t = "str" /\ Len(v.s) = 3 /\ v.s[1] = MaxTurnsMsg(0)[1] /\ v.s[3] = MaxTurnsMsg(0)[3]

\* C6: for every response that carries the turn-limit-exceeded marker,
\* whatever its exit status and whether or not it has response text, the Turn
\* Result is not a success, has a non-empty error message that cites the turn
\* count and a non-empty response text (the placeholder when the response had
\* none); a Test Result whose attempt is such a turn has success = false
C6_MaxTurnsIsFailure ==
    /\ HasMaxTurnsMarker(raw) =>
          /\ ~turn.success
          /\ NonEmptyStr(turn.error)
          /\ IsMaxTurnsError(turn.error)
          /\ Contains(turn.error, ToString(ReportedTurns(raw)))
          /\ NonEmptyStr(turn.result)
          /\ ~HasText(raw) => turn.result = Str(<<MaxTurnsPlaceholder>>)
    /\ (pc = "reflecting" /\ HasMaxTurnsMarker(raw)) => IsMaxTurnsError(turn1.error)
    /\ (pc = "write" /\ Len(calls) = 1 /\ HasMaxTurnsMarker(raw)) =>
          IsMaxTurnsError(turn1.error)
    /\ (TestFinished /\ IsMaxTurnsError(turn1.error)) => ~result.success

\* the agent exited with status 0, printed the marker and no text, and the
\* test was finalised as failed after its reflection turn
C6_Witness ==
    /\ TestFinished
    /\ Len(calls) = 2
    /\ IsMaxTurnsError(turn1.error)
    /\ turn1.result = Str(<<MaxTurnsPlaceholder>>)
    /\ turn1.num_turns = 3
    /\ ~result.success

\* one invocation of the agent per call of run_claude_command
OneInvocationPerCall ==
    /\ pc = "attempting" => Len(calls) = 1 /\ proc = calls[1]
    /\ pc = "reflecting" => Len(calls) = 2 /\ proc = calls[2]
    /\ pc = "write" =>
          /\ proc = NoProc
          /\ Len(calls) = IF result.turn2_reflection = None_ THEN 1 ELSE 2

\* C7: every invocation fault (process not found, timeout, any other
\* exception raised while invoking or normalising) is returned as a Turn
\* Result with success = false, a non-empty error description, no session
\* identifier, cost 0 and turn count 0, and the test runner goes on; there is
\* exactly one invocation per call
C7_FaultsBecomeFailedTurns ==
    /\ IsInvocationFault(raw) =>
          /\ turn.success = FALSE
          /\ NonEmptyStr(turn.error)
          /\ turn.session_id = None_
          /\ turn.cost_usd = 0
          /\ turn.num_turns = 0
          /\ raw.kind = "timeout" => Contains(turn.error, ToString(timeout))
          /\ raw.kind = "not_found" => turn.error = Str(<<NotFoundMsg>>)
          /\ raw.kind = "exception" => turn.error = Str(raw.msg)
          /\ pc \in {"write", "loop"}
    /\ OneInvocationPerCall

\* the reflection turn timed out after the attempt had succeeded
C7_Witness ==
    /\ TestFinished
    /\ raw.kind = "timeout"
    /\ Len(calls) = 2
    /\ turn1.success
    /\ result.turn2_reflection.d.error = Str(TimeoutMsg(600))

-----------------------------------------------------------------------------
(* Claim about the recursion guard, checked under ChainSpec *)

HarnessAt(k, at) == chain[k].kind = "harness" /\ chain[k].at = at

\* C8: an invocation that reads a depth beyond the maximum exits with a
\* non-zero status before it starts any agent; otherwise it stores the depth
\* plus one before it starts a child, so that every agent inherits it; from a
\* counter that is unset or zero at most MAX_RECURSION_DEPTH + 1 nested
\* invocations get past the guard and the chain stops growing
C8_RecursionGuard ==
    /\ \A k \in 1..Len(chain) :
          /\ HarnessAt(k, "rejected") =>
                /\ chain[k].depth > MAX_RECURSION_DEPTH
                /\ chain[k].spawned = 0
                /\ chain[k].exit = <<1>>
                /\ k = Len(chain)
          /\ HarnessAt(k, "start") => chain[k].spawned = 0 /\ k = Len(chain)
          /\ HarnessAt(k, "running") =>
                /\ chain[k].depth <= MAX_RECURSION_DEPTH
                /\ chain[k].env = <<chain[k].depth + 1>>
                /\ chain[k].exit = <<>>
          /\ (chain[k].kind = "agent") =>
                /\ k > 1
                /\ chain[k - 1].kind = "harness"
                /\ chain[k].env = <<chain[k - 1].depth + 1>>
          /\ (k > 2 /\ chain[k].kind = "harness" /\ chain[k].at # "start") =>
                chain[k].depth = chain[k - 2].depth + 1
    /\ (chain[1].at # "start" /\ chain[1].depth = 0) =>
          /\ Cardinality({k \in 1..Len(chain) : HarnessAt(k, "running")})
                <= MAX_RECURSION_DEPTH + 1
          /\ Len(chain) <= 2 * (MAX_RECURSION_DEPTH + 1) + 1

\* the longest chain from an unset counter: three invocations run, the
\* fourth is rejected
C8_Witness ==
    /\ Len(chain) = 2 * (MAX_RECURSION_DEPTH + 1) + 1
    /\ chain[1].depth = 0
    /\ chain[1].env = <<1>>
    /\ HarnessAt(Len(chain), "rejected")
    /\ Top.depth = MAX_RECURSION_DEPTH + 1

-----------------------------------------------------------------------------
(* Claim about the Test Result files, checked under Spec *)

WritesTo(path) == {k \in 1..Len(writes) : writes[k].file = path}

\* C9 as stated: each Test Result file is written exactly once, at the end of
\* its own test, and is never overwritten afterwards by a later test, by the
\* legacy output file or by a run of the standalone aggregation pass
C9_Original ==
    \A j \in 1..Len(results) :
        /\ Cardinality(WritesTo(ResultPath(tests[j]))) = 1
        /\ \A k \in WritesTo(ResultPath(tests[j])) : writes[k].by = "test"
        /\ OnDisk(j)

-----------------------------------------------------------------------------
(* Claim about calculate_statistics, checked under StatsSpec *)

StatsReturned == pc = "statistics_done"

AllZero(st) == \A f \in DOMAIN st : st[f] = 0

CountsAddUp ==
    /\ statsOut.total_tests = Len(statsIn)
    /\ statsOut.passed = Cardinality({k \in 1..Len(statsIn) : statsIn[k].success})
    /\ statsOut.passed + statsOut.failed = statsOut.total_tests
    /\ statsIn = <<>> => AllZero(statsOut)

\* 1000 * passed - success_rate * total_tests, success_rate in thousandths
RateError == 1000 * statsOut.passed - statsOut.success_rate * statsOut.total_tests

\* C10 as stated: passed + failed = total_tests and success_rate equals
\* passed / total_tests exactly (0 for the empty list, whose record is all
\* zero)
C10_Original ==
    StatsReturned => CountsAddUp /\ RateError = 0

\* C10 amended: passed + failed = total_tests and success_rate equals
\* passed / total_tests rounded to three decimal places (0 for the empty list,
\* whose record is all zero)
C10_RateRoundedToThreeDecimals ==
    StatsReturned =>
        /\ CountsAddUp
        /\ 2 * RateError <= statsOut.total_tests
        /\ -2 * RateError <= statsOut.total_tests
        /\ statsOut.success_rate \in 0..1000

\* two of three tests passed: the rate is 0.667
C10_Witness ==
    /\ StatsReturned
    /\ statsOut.total_tests = 3
    /\ statsOut.passed = 2
    /\ statsOut.success_rate = 667

-----------------------------------------------------------------------------
(* Claims about collect_suggestions, checked under AggSpec *)

\* the non-empty strings of the improvement_suggestions lists of the loaded
\* records, in the order the pass meets them, trimmed
RECURSIVE Mentions(_)
Mentions(rs) ==
    IF rs = <<>> THEN <<>>
    ELSE LET items == ParsedOf(Head(rs)).improvement_suggestions.items
         IN  SelectSeq([k \in 1..Len(items) |->
                            IF items[k].t = "str" /\ items[k].s # <<>>
                            THEN Str(Strip(items[k].s))
                            ELSE None_],
                       LAMBDA v : v.t = "str")
             \o Mentions(Tail(rs))

\* how often a suggestion is mentioned, and where first
MentionCount(m, x) == Cardinality({k \in 1..Len(m) : m[k].s = x})
FirstMention(m, x) == CHOOSE k \in 1..Len(m) : m[k].s = x /\ \A j \in 1..(k - 1) : m[j].s # x

\* a pass that returned
PassReturned == aggPass.status = "ok"

Ranked == aggPass.summary.all_improvement_suggestions

\* C11: the ranked list of a pass holds each distinct suggestion exactly
\* once, by descending number of mentions, suggestions with equally many
\* mentions in the order in which they were first seen
C11_RankedByCountThenFirstSeen ==
    PassReturned =>
        LET m == Mentions(aggPass.loaded)
        IN  /\ \A i, j \in 1..Len(Ranked) : i < j => Ranked[i] # Ranked[j]
            /\ \A i, j \in 1..Len(Ranked) :
                   i < j => \/ MentionCount(m, Ranked[i]) > MentionCount(m, Ranked[j])
                            \/ /\ MentionCount(m, Ranked[i]) = MentionCount(m, Ranked[j])
                               /\ FirstMention(m, Ranked[i]) < FirstMention(m, Ranked[j])
            /\ {Ranked[i] : i \in 1..Len(Ranked)} = {m[k].s : k \in 1..Len(m)}

\* a pass over [b, a] and [a]: a is ranked first although b was seen first
C11_Witness ==
    /\ PassReturned
    /\ Ranked = <<<<"a">>, <<"b">>>>
    /\ FirstMention(Mentions(aggPass.loaded), <<"b">>) = 1
    /\ MentionCount(Mentions(aggPass.loaded), <<"a">>) = 2

\* a pass that follows an earlier pass over the same Test Result files
C12_SecondPassStep ==
    (aggRuns' = aggRuns + 1 /\ aggRuns > 0)
        => /\ aggPass'.status = aggPass.status
           /\ aggPass'.loaded = aggPass.loaded
           /\ aggPass'.summary = aggPass.summary

\* the files a pass leaves behind are not among the files a pass reads
C12_OutputsNotLoaded ==
    LET inputs == DOMAIN disk \ {SummaryPath, ReportPath, LegacyPath}
    IN  /\ Len(aggPass.loaded) <= Cardinality(inputs)
        /\ \A k \in 1..Len(aggPass.loaded) :
               \E path \in inputs : disk[path].value = aggPass.loaded[k]

\* C12: a second standalone pass over unchanged Test Result files computes
\* the same statistics and the same suggestion collection as the first, and
\* reads none of the files the first pass or the run command wrote
C12_PassIsRepeatable ==
    [][C12_SecondPassStep]_vars /\ []C12_OutputsNotLoaded

\* two passes over a directory with the legacy file, a summary and a report
C12_Witness ==
    /\ aggRuns = 2
    /\ PassReturned
    /\ Ranked # <<>>
    /\ aggPass.summary.statistics.total_tests = 2
    /\ {SummaryPath, ReportPath, LegacyPath} \subseteq DOMAIN disk

-----------------------------------------------------------------------------
(* Claim about anomalous aggregation inputs, checked under AggSpec *)

\* the well-formed Test Results of a directory
WellFormedRecords(d) ==
    {path \in DOMAIN d \ {SummaryPath, ReportPath, LegacyPath} :
        d[path].kind = "test_result"}

\* C13 as the specification states it: whatever anomalous files and
\* reflection payloads a directory holds, a pass returns, and its statistics
\* cover exactly the well-formed Test Results
C13_Original ==
    aggRuns > 0 =>
        /\ PassReturned
        /\ aggPass.summary.statistics.total_tests = Cardinality(WellFormedRecords(disk))
        /\ {SummaryPath, ReportPath} \subseteq DOMAIN disk

-----------------------------------------------------------------------------
(* Claims about parse_reflection, checked under ParseSpec *)

ParseReturned == pc = "parse_done"

\* the payloads that are a JSON object
StructuredPayloads ==
    {payload \in Payloads : payload[1] \in DOMAIN JsonDocs /\ JsonDocs[payload[1]].t = "dict"}

\* the four lists of a JSON object, a key that is missing giving []
BundleOf(payload) ==
    [k \in BundleKeys |->
        IF k \in DOMAIN JsonDocs[payload[1]].d THEN JsonDocs[payload[1]].d[k]
        ELSE List(<<>>)]

\* a fenced block, with or without the language tag
FencedWrappings == {"fence", "tagged", "padded_fence", "padded_tagged", "inner_blank"}

\* C14: parse_reflection returns a bundle with exactly the four keys; a
\* JSON object in a fenced block, with or without the language tag, gives the
\* bundle the bare object gives; an absent turn, a turn without text, an
\* empty text and a text that is not a JSON object give four empty lists
C14_ParseReflectionTotal ==
    ParseReturned =>
        /\ DOMAIN statsOut = BundleKeys
        /\ \A payload \in StructuredPayloads, w \in FencedWrappings \cup {"bare", "padded"} :
               statsIn = ReflectionOf(Wrap(w, payload)) => statsOut = BundleOf(payload)
        /\ \A payload \in Payloads \ StructuredPayloads,
                w \in FencedWrappings \cup {"bare", "padded"} :
               statsIn = ReflectionOf(Wrap(w, payload)) => statsOut = EmptyBundle
        /\ (statsIn = None_ \/ "result" \notin DOMAIN statsIn.d
               \/ statsIn = ReflectionOf(<<>>)) => statsOut = EmptyBundle

\* an object with all four lists in a fenced block with the language tag
C14_Witness ==
    /\ ParseReturned
    /\ statsIn = ReflectionOf(Wrap("padded_tagged", <<DocPadded>>))
    /\ statsOut = BundleOf(<<DocPadded>>)
    /\ statsOut.process_steps = List(<<Str(<<"s">>)>>)

-----------------------------------------------------------------------------
(* Claim about the reflection turn and overall success, checked under        *)
(* PairSpec                                                                  *)

PairReturned == pc = "pair_done"

\* whether an invocation returned a successful turn
TurnSucceeds(o) == RunClaudeCommand(timeout, o).success

\* C15: two executions of a test whose attempt turns return the same have
\* the same success flag, whatever their reflection turns return
C15_ReflectionNeverChangesSuccess ==
    PairReturned => statsOut[1].success = statsOut[2].success

\* a passed test whose reflection succeeded in one execution and failed in
\* the other
C15_Witness ==
    /\ PairReturned
    /\ statsOut[1].success
    /\ statsOut[2].success
    /\ statsOut[1].turn2_reflection # None_
    /\ TurnSucceeds(statsIn.reflections[1])
    /\ ~TurnSucceeds(statsIn.reflections[2])
    /\ statsOut[1].turn2_reflection # statsOut[2].turn2_reflection

-----------------------------------------------------------------------------
(* Claims about the invocations of a run, checked under Spec *)

Attempts == {k \in 1..Len(calls) : calls[k].kind = "attempt"}
ReflectionCalls == {k \in 1..Len(calls) : calls[k].kind = "reflection"}

\* the session identifier the attempt of a test returned
SessionReturned(test) ==
    IF test <= Len(results) THEN results[test].turn1.d.session_id
    ELSE turn1.session_id

\* C16: every attempt starts without a session identifier; a reflection is
\* issued only directly after the attempt of the same test, resumes exactly
\* the session that attempt returned, with the fixed reflection prompt, a
\* turn limit of 2 and the attempt's timeout; no invocation resumes the
\* session of another test
C16_SessionContinuity ==
    /\ \A k \in Attempts : calls[k].cmd.resume = None_
    /\ \A k \in ReflectionCalls :
          /\ k - 1 \in Attempts
          /\ calls[k - 1].test = calls[k].test
          /\ Truthy(calls[k].cmd.resume)
          /\ calls[k].cmd.resume = SessionReturned(calls[k].test)
          /\ calls[k].cmd.prompt = Str(<<REFLECTION_PROMPT>>)
          /\ calls[k].cmd.max_turns = REFLECTION_MAX_TURNS
          /\ calls[k].cmd.timeout = calls[k - 1].cmd.timeout
    /\ \A k \in ReflectionCalls, test \in 1..Len(results) :
          test # calls[k].test => calls[k].cmd.resume # SessionReturned(test)

\* two tests, each reflected on in its own session
C16_Witness ==
    /\ Len(calls) = 4
    /\ ReflectionCalls = {2, 4}
    /\ calls[2].cmd.resume # calls[4].cmd.resume
    /\ pc = "reflecting"

\* the run command has ended after every test of the suite was executed
RunEnded == pc \in {"exited", "crashed", "loop_crashed"} /\ Len(results) = Len(tests)

\* C17 as the specification states it: a run command that executed its
\* whole suite ends with status 0 exactly when every test has success = true
C17_Original ==
    RunEnded => (exitStatus = <<0>> <=> \A j \in 1..Len(results) : results[j].success)

-----------------------------------------------------------------------------
(* Claim about fence stripping, checked under ParseSpec *)

\* the payload of a text under the rule of the specification: between the
\* opening fence and the nearest closing fence line after it
NearestPayload(text) ==
    IF text = <<>> \/ text[1] \notin FenceOpeners THEN text
    ELSE LET closing == {k \in 2..Len(text) : text[k] = Fence}
         IN  IF closing = {} THEN text
             ELSE SubSeq(text, 2, (CHOOSE k \in closing : \A j \in closing : k <= j) - 1)

\* what parse_reflection makes of a payload
BundleOfText(text) ==
    IF Len(text) = 1 /\ <<text[1]>> \in StructuredPayloads THEN BundleOf(text)
    ELSE EmptyBundle

\* C18 as the specification states it: the text of a reflection is parsed
\* from the content between the opening fence and the nearest closing fence
\* line, and as it is when there is no closing fence line
C18_Original ==
    (ParseReturned /\ Truthy(statsIn) /\ "result" \in DOMAIN statsIn.d)
        => statsOut = BundleOfText(Strip(NearestPayload(Strip(statsIn.d.result.s))))

-----------------------------------------------------------------------------
(* Claim about the strings of the suggestion collection, checked under       *)
(* AggSpec                                                                   *)

\* a string without surrounding whitespace that is not empty
TrimmedNonEmpty(x) == x # <<>> /\ Strip(x) = x

\* C19 as the specification states it: every string of the ranked
\* suggestions and of the what-worked and what-didn't-work lists is trimmed
\* and non-empty
C19_Original ==
    PassReturned =>
        \A key \in {"all_improvement_suggestions", "what_worked", "what_didnt_work"} :
            \A k \in 1..Len(aggPass.summary[key]) : TrimmedNonEmpty(aggPass.summary[key][k])

-----------------------------------------------------------------------------
(* Claim about the order of the invocations, checked under Spec *)

CallsOf(test, kind) ==
    {k \in 1..Len(calls) : calls[k].test = test /\ calls[k].kind = kind}

\* the invocation that has not returned yet, if any
InFlight == IF pc \in {"attempting", "reflecting"} THEN {Len(calls)} ELSE {}

\* an invocation is in flight exactly while run_single_test waits for it, and
\* it is the one that was started last
C20_OneInFlight ==
    /\ proc.kind # "none" <=> InFlight # {}
    /\ InFlight # {} => calls # <<>> /\ proc = calls[Len(calls)] /\ proc.test = idx

\* every test that was run caused one attempt and at most one reflection,
\* the reflection after the attempt; the invocations of a test come after
\* those of the tests before it
C20_InvocationsPerTest ==
    /\ \A k \in 1..Len(calls) : calls[k].test \in 1..Len(tests)
    /\ \A test \in 1..Len(tests) :
          /\ Cardinality(CallsOf(test, "attempt")) <= 1
          /\ Cardinality(CallsOf(test, "reflection")) <= 1
          /\ test <= Len(results) =>
                /\ Cardinality(CallsOf(test, "attempt")) = 1
                /\ CallsOf(test, "reflection") # {}
                      <=> results[test].turn2_reflection # None_
          /\ test > Len(results) /\ test # idx =>
                CallsOf(test, "attempt") \cup CallsOf(test, "reflection") = {}
    /\ \A j, k \in 1..Len(calls) :
          j < k => \/ calls[j].test < calls[k].test
                   \/ /\ calls[j].test = calls[k].test
                      /\ calls[j].kind = "attempt"
                      /\ calls[k].kind = "reflection"

\* an invocation starts only when none is in flight or when the one in
\* flight returns in the same step; an attempt starts only when the test
\* before it has its Test Result
C20_StartStep ==
    calls' # calls =>
        /\ Len(calls') = Len(calls) + 1
        /\ SubSeq(calls', 1, Len(calls)) = calls
        /\ \/ InFlight = {}
           \/ pc = "attempting" /\ pc' = "reflecting"
        /\ calls'[Len(calls')].kind = "attempt" =>
              /\ InFlight = {}
              /\ Len(results) = calls'[Len(calls')].test - 1

\* C20: at most one invocation of the agent is in flight; a test causes one
\* attempt and at most one reflection and nothing is invoked again after a
\* failure; the attempt of the next test starts only after the last
\* invocation of the test before it has returned
C20_StrictlySequential ==
    [](C20_OneInFlight /\ C20_InvocationsPerTest) /\ [][C20_StartStep]_vars

\* a test that was reflected on, then a test whose attempt failed without a
\* session and was not invoked again
C20_Witness ==
    /\ Len(results) = 2
    /\ Len(calls) = 3
    /\ calls[2].kind = "reflection"
    /\ calls[3].kind = "attempt"
    /\ ~results[2].success
    /\ InFlight = {}

-----------------------------------------------------------------------------
(* Claim about the records read back after a run, checked under Spec *)

\* how often a value occurs in a list
Occurrences(list, v) == Cardinality({k \in 1..Len(list) : list[k] = v})

\* two lists hold the same records, each as often
SameRecords(a, b) ==
    /\ Len(a) = Len(b)
    /\ \A k \in 1..Len(a) : Occurrences(a, a[k]) = Occurrences(b, a[k])

\* a pass has read the results directory of a run that executed every test
ReadBack == aggRuns > 0 /\ Len(results) = Len(tests)

\* C21 as the specification states it: the records load_test_results reads
\* back from the results directory of a run are the Test Results the suite
\* runner returned, one per test, and the statistics recomputed from them
\* have the total, the passed count and the total cost of the running
\* counters
C21_Original ==
    ReadBack =>
        /\ SameRecords(aggPass.loaded, results)
        /\ PassReturned
        /\ aggPass.summary.statistics.total_tests = Len(results)
        /\ aggPass.summary.statistics.passed = passed
        /\ aggPass.summary.statistics.total_cost_usd = 10 * RoundDiv(total_cost, 10)

====
